---- MODULE Spec2Model ----
(***************************************************************************)
(* Model of the packaging-evaluation workflow orchestrator.                *)
(*                                                                         *)
(*   state   the PackagingEvaluationState record of one session            *)
(*           (src/packaging_evaluation/state.py), every field the step     *)
(*           handlers read or write;                                       *)
(*   driver  the position of the driver loop of evaluate_packaging         *)
(*           (src/web/api.py:49-67): "idle" after construction, "running"  *)
(*           inside the while loop, "returned" after the loop exited,      *)
(*           "failed" after a handler raised;                              *)
(*   status  the HTTP status of the last loop invocation (0: none yet);    *)
(*   last_step, raised, steps_run, attached, failures, prev_state          *)
(*           history of the run: the handler called last, whether that     *)
(*           call raised, the number of handlers that returned in the      *)
(*           current loop invocation, the number of feedback objects       *)
(*           attached, the number of collaborator failures, and the record *)
(*           as it was before the last handler call;                       *)
(*   awaited the handler that is suspended at its awaited collaborator     *)
(*           call after it wrote to the record ("reflection", which        *)
(*           increments its counter first), "none" otherwise; prev_state   *)
(*           is then the record before that handler was called;            *)
(*   forged  whether the record's current_node was altered outside the     *)
(*           handlers (a corrupted or forged record);                      *)
(*   sessions  the records and loop positions of the requests the server   *)
(*           handles concurrently, by request; empty where one session is  *)
(*           followed on its own.                                          *)
(*                                                                         *)
(* The step handlers of src/packaging_evaluation/tools.py are operators    *)
(* from a record (and the collaborator's answer) to the record the handler *)
(* returns.  A collaborator is an LLM call: its answer is drawn from a     *)
(* small set, and it may fail (raise), which ends the loop invocation.     *)
(***************************************************************************)
EXTENDS Integers, Sequences, FiniteSets, TLC

VARIABLES state, driver, status, last_step, raised, steps_run, attached,
          failures, forged, prev_state, awaited, sessions

\* the variables of the session that is followed step by step
session_vars == <<state, driver, status, last_step, raised, steps_run,
                  attached, failures, forged, prev_state, awaited>>

vars == <<session_vars, sessions>>

(* Bounds of the model *)

\* feedback objects the caller attaches during one session
MaxFeedback == 2

\* collaborator failures during one session
MaxFailures == 2

\* length of the questions list a reflection collaborator returns
MaxQuestions == 1

\* length of the message log up to which the driver is followed
MaxMessages == 24

(* Values *)

\* Python None, for the Optional fields of the record
None == [tag |-> "None"]

\* the reflection ceiling written as the literal 3 in reflection()
MaxReflections == 3

\* the eight nodes registered in the graph and dispatched by the driver loop
Nodes ==
    {"image_analyzer", "concept_breaker", "human_feedback", "process_feedback",
     "technical_feasibility", "operations", "reflection", "final_score"}

\* langgraph's END sentinel
END == "__end__"

\* str(bool) as the f-strings of the handlers render it
PyBool(b) == IF b THEN "True" ELSE "False"

\* ', '.join(seq)
RECURSIVE JoinComma(_)
JoinComma(seq) ==
    IF Len(seq) = 0 THEN ""
    ELSE IF Len(seq) = 1 THEN seq[1]
    ELSE seq[1] \o ", " \o JoinComma(Tail(seq))

\* '\n'.join(seq)
RECURSIVE JoinLines(_)
JoinLines(seq) ==
    IF Len(seq) = 0 THEN ""
    ELSE IF Len(seq) = 1 THEN seq[1]
    ELSE seq[1] \o "\n" \o JoinLines(Tail(seq))

(* Collaborator answers (structured LLM outputs) *)

Comp1 == [name |-> "tray", material |-> "pulp", function |-> "hold",
          requirements |-> <<"rigid", "dry">>]

Comp2 == [name |-> "film", material |-> "PE", function |-> "seal",
          requirements |-> <<>>]

\* ComponentList answers of the concept_breaker collaborator
ComponentLists == {<<Comp1>>, <<Comp2, Comp1>>}

\* ImageAnalysis answers of the image_analyzer collaborator
ImageAnalyses ==
    {[identified_components |-> <<"tray">>, analysis_summary |-> "one tray"]}

\* TechnicalAssessment answers
TechnicalAssessments ==
    {[overall_feasible |-> b, technical_summary |-> "tech"] : b \in BOOLEAN}

\* OperationalAssessment answers
OperationalAssessments ==
    {[overall_feasible |-> TRUE, operational_summary |-> "ops"]}

\* the questions lists a ReflectionNotes answer may carry
QuestionLists == {q \in {<<>>, <<"q1">>, <<"q1", "q2">>, <<"q1", "q2", "q3">>} :
                     Len(q) <= MaxQuestions}

\* ReflectionNotes answers
ReflectionAnswers ==
    {[requires_iteration |-> b, questions |-> q, reflection_summary |-> "refl"] :
        b \in BOOLEAN, q \in QuestionLists}

\* FinalEvaluation answers
FinalEvaluations ==
    {[feasibility_score |-> 7, executive_summary |-> "go ahead",
      go_decision |-> TRUE]}

\* UserFeedback objects a caller may attach
UserFeedbacks ==
    {[is_correct |-> b, suggested_changes |-> <<"thicker film">>] :
        b \in BOOLEAN}

\* the image lists of a request: none, or one image
ImageLists == {<<>>, <<"data:image/png;base64,AAAA">>}

(* The record: src/packaging_evaluation/state.py *)

\* add_message as it would be with the entry inserted at the head of the log
add_message_prepends(s, agent, content) ==
    [s EXCEPT !.messages = <<[agent |-> agent, content |-> content]>> \o @]

\* add_message: appends one {"agent", "content"} entry to the log
add_message(s, agent, content) ==
    [s EXCEPT !.messages = Append(@, [agent |-> agent, content |-> content])]

\* The class-level default of current_node.  The expression
\* '"image_analyzer" if concept_images else "concept_breaker"' is evaluated
\* once, in the class body, where concept_images is the (truthy) Field(...)
\* object, not the list of an instance: the default is "image_analyzer" for
\* every record, whatever images it is constructed with.
DefaultCurrentNode(images) == "image_analyzer"

\* PackagingEvaluationState(packaging_concept=..., concept_images=images)
NewState(images) ==
    [packaging_concept     |-> "concept",
     concept_images        |-> images,
     components            |-> <<>>,
     image_analysis        |-> None,
     technical_assessment  |-> None,
     operational_assessment |-> None,
     reflection_notes      |-> None,
     final_evaluation      |-> None,
     evaluation_score      |-> None,
     final_recommendation  |-> "",
     current_node          |-> DefaultCurrentNode(images),
     process_complete      |-> FALSE,
     messages              |-> <<>>,
     reflection_counter    |-> 0,
     user_feedback         |-> None,
     feedback_iteration    |-> 0,
     awaiting_human_input  |-> FALSE]


(* The step handlers: src/packaging_evaluation/tools.py.  Each operator  *)
(* maps the record a handler receives, and the collaborator's answer     *)
(* where the handler awaits one, to the record the handler returns.      *)

\* image_analysis awaits the collaborator only when images were supplied
image_analysis_calls(s) == s.concept_images # <<>>

\* image_analysis: skips without a message when there are no images
image_analysis(s, analysis) ==
    IF s.concept_images = <<>>
    THEN [s EXCEPT !.current_node = "concept_breaker"]
    ELSE [add_message([s EXCEPT !.image_analysis = analysis],
                      "image_analyzer",
                      "Image analysis complete. Identified "
                        \o ToString(Len(analysis.identified_components))
                        \o " components. " \o analysis.analysis_summary)
            EXCEPT !.current_node = "concept_breaker"]

\* concept_breaker as it would be with technical_feasibility as its next
\* node, passing by the feedback gate
concept_breaker_skips_feedback(s, components) ==
    [add_message([s EXCEPT !.components = components],
                 "concept_breaker",
                 "Concept breakdown complete. Identified "
                   \o ToString(Len(components)) \o " components.")
        EXCEPT !.current_node = "technical_feasibility"]

\* concept_breaker as it would be with the component list frozen after the
\* first derivation
concept_breaker_frozen(s, components) ==
    [add_message([s EXCEPT !.components =
                     IF @ = <<>> THEN components ELSE @],
                 "concept_breaker",
                 "Concept breakdown complete. Identified "
                   \o ToString(Len(components)) \o " components.")
        EXCEPT !.current_node = "human_feedback"]

\* concept_breaker: replaces the component list with the collaborator's
concept_breaker(s, components) ==
    [add_message([s EXCEPT !.components = components],
                 "concept_breaker",
                 "Concept breakdown complete. Identified "
                   \o ToString(Len(components)) \o " components.")
        EXCEPT !.current_node = "human_feedback"]

\* one entry of components_summary in human_feedback
ComponentSummary(c) ==
    "- Component: " \o c.name \o "\n  Material: " \o c.material
      \o "\n  Function: " \o c.function
      \o "\n  Requirements: " \o JoinComma(c.requirements)

\* the feedback_prompt f-string of human_feedback
FeedbackPrompt(components) ==
    "\nPlease review the component breakdown:\n\n"
      \o JoinLines([i \in 1..Len(components) |-> ComponentSummary(components[i])])
      \o "\n\nPlease provide feedback on:\n"
      \o "1. Are the component identifications correct? (yes/no)\n"
      \o "2. Are the material assumptions accurate? (yes/no)\n"
      \o "3. Any suggested changes or improvements? (list specific changes)\n\n"
      \o "Please provide your feedback in the following format:\n"
      \o "is_correct: [yes/no]\n"
      \o "feedback_notes: [your notes]\n"
      \o "suggested_changes: [list of specific changes]\n"

\* human_feedback as it would be without the assignment of
\* awaiting_human_input
human_feedback_no_park(s) ==
    IF s.user_feedback = None
    THEN [add_message(s, "human_feedback", FeedbackPrompt(s.components))
            EXCEPT !.current_node = "human_feedback"]
    ELSE [s EXCEPT !.current_node = "process_feedback"]

\* human_feedback as it would be if it moved on to process_feedback without
\* waiting for the feedback
human_feedback_skips_wait(s) ==
    [s EXCEPT !.current_node = "process_feedback"]

\* human_feedback: requests feedback and parks, or moves on to
\* process_feedback when feedback is there.  The else branch assigns
\* current_node only.
human_feedback(s) ==
    IF s.user_feedback = None
    THEN [add_message(s, "human_feedback", FeedbackPrompt(s.components))
            EXCEPT !.awaiting_human_input = TRUE,
                   !.current_node = "human_feedback"]
    ELSE [s EXCEPT !.current_node = "process_feedback"]

\* process_feedback raises ValueError when there is no feedback
process_feedback_raises(s) == s.user_feedback = None

\* process_feedback as it would be without the final clearing of
\* user_feedback
process_feedback_keeps_feedback(s) ==
    LET fb == s.user_feedback
        s1 == add_message(s, "feedback_processor",
                          "Processing feedback. "
                            \o (IF ~fb.is_correct THEN "Changes requested"
                                ELSE "Components confirmed correct"))
    IN  IF fb.is_correct
        THEN [s1 EXCEPT !.current_node = "technical_feasibility"]
        ELSE [add_message(s1, "feedback_processor",
                          "Adjusting components based on feedback: "
                            \o JoinComma(fb.suggested_changes))
                EXCEPT !.current_node = "concept_breaker"]

\* process_feedback as it would be with the two targets exchanged
process_feedback_swapped(s) ==
    LET fb == s.user_feedback
        s1 == add_message(s, "feedback_processor",
                          "Processing feedback. "
                            \o (IF ~fb.is_correct THEN "Changes requested"
                                ELSE "Components confirmed correct"))
        s2 == IF fb.is_correct
              THEN [s1 EXCEPT !.current_node = "concept_breaker"]
              ELSE [add_message(s1, "feedback_processor",
                                "Adjusting components based on feedback: "
                                  \o JoinComma(fb.suggested_changes))
                      EXCEPT !.current_node = "technical_feasibility"]
    IN  [s2 EXCEPT !.user_feedback = None]

\* process_feedback: routes by is_correct and clears the feedback
process_feedback(s) ==
    LET fb == s.user_feedback
        s1 == add_message(s, "feedback_processor",
                          "Processing feedback. "
                            \o (IF ~fb.is_correct THEN "Changes requested"
                                ELSE "Components confirmed correct"))
        s2 == IF fb.is_correct
              THEN [s1 EXCEPT !.current_node = "technical_feasibility"]
              ELSE [add_message(s1, "feedback_processor",
                                "Adjusting components based on feedback: "
                                  \o JoinComma(fb.suggested_changes))
                      EXCEPT !.current_node = "concept_breaker"]
    IN  [s2 EXCEPT !.user_feedback = None]

\* technical_feasibility
technical_feasibility(s, assessment) ==
    [add_message([s EXCEPT !.technical_assessment = assessment],
                 "technical_feasibility",
                 "Technical feasibility assessment complete. Overall feasibility: "
                   \o PyBool(assessment.overall_feasible))
        EXCEPT !.current_node = "operations"]

\* operations as it would be with a next node that is not registered
operations_misnamed(s, assessment) ==
    [add_message([s EXCEPT !.operational_assessment = assessment],
                 "operations",
                 "Operational impact assessment complete. Overall feasibility: "
                   \o PyBool(assessment.overall_feasible))
        EXCEPT !.current_node = "reflect"]

\* operations as it would be if it went to final_score directly
operations_skips_reflection(s, assessment) ==
    [add_message([s EXCEPT !.operational_assessment = assessment],
                 "operations",
                 "Operational impact assessment complete. Overall feasibility: "
                   \o PyBool(assessment.overall_feasible))
        EXCEPT !.current_node = "final_score"]

\* operations
operations(s, assessment) ==
    [add_message([s EXCEPT !.operational_assessment = assessment],
                 "operations",
                 "Operational impact assessment complete. Overall feasibility: "
                   \o PyBool(assessment.overall_feasible))
        EXCEPT !.current_node = "reflection"]

\* the entry of reflection as it would be without the increment
reflection_enter_no_count(s) == s

\* the entry of reflection: the counter is incremented first
reflection_enter(s) ==
    [s EXCEPT !.reflection_counter = @ + 1]

\* reflection awaits the collaborator only below the ceiling
reflection_calls(s) == reflection_enter(s).reflection_counter < MaxReflections

\* the routing of reflection as it would be with the test of the questions
\* list inverted
reflection_next_prefers_operations(s, notes) ==
    IF notes.requires_iteration /\ s.reflection_counter < MaxReflections
    THEN IF notes.questions = <<>>
         THEN "technical_feasibility"
         ELSE "operations"
    ELSE "final_score"

\* the routing of reflection as it would be if open questions were sent
\* back to the human
reflection_next_asks_human(s, notes) ==
    IF notes.requires_iteration /\ s.reflection_counter < MaxReflections
    THEN IF notes.questions # <<>>
         THEN "human_feedback"
         ELSE "operations"
    ELSE "final_score"

\* the next node reflection chooses from the collaborator's answer
reflection_next(s, notes) ==
    IF notes.requires_iteration /\ s.reflection_counter < MaxReflections
    THEN IF notes.questions # <<>>
         THEN "technical_feasibility"
         ELSE "operations"
    ELSE "final_score"

\* reflection as it would be without the ceiling: neither the early return
\* at the ceiling nor the counter test in the routing
reflection_no_ceiling(s, notes) ==
    LET s1 == reflection_enter(s)
        s2 == add_message([s1 EXCEPT !.reflection_notes = notes],
                          "reflection",
                          "Reflection " \o ToString(s1.reflection_counter)
                            \o "/3 complete. Requires iteration: "
                            \o PyBool(notes.requires_iteration))
    IN  [s2 EXCEPT !.current_node =
            IF notes.requires_iteration
            THEN IF notes.questions # <<>>
                 THEN "technical_feasibility"
                 ELSE "operations"
            ELSE "final_score"]

\* reflection as it would be with the ceiling tested one too high, in the
\* early return (> for >=) and in the routing (<= for <)
reflection_ceiling_above(s, notes) ==
    LET s1 == reflection_enter(s) IN
    IF s1.reflection_counter > MaxReflections
    THEN [add_message(s1, "reflection",
                      "Maximum number of reflections reached (3). Moving to final evaluation.")
            EXCEPT !.current_node = "final_score"]
    ELSE LET s2 == add_message([s1 EXCEPT !.reflection_notes = notes],
                               "reflection",
                               "Reflection " \o ToString(s1.reflection_counter)
                                 \o "/3 complete. Requires iteration: "
                                 \o PyBool(notes.requires_iteration))
         IN  [s2 EXCEPT !.current_node =
                 IF notes.requires_iteration
                      /\ s2.reflection_counter <= MaxReflections
                 THEN IF notes.questions # <<>>
                      THEN "technical_feasibility"
                      ELSE "operations"
                 ELSE "final_score"]

\* reflection as it would be if reaching the ceiling completed the process
reflection_completes_at_ceiling(s, notes) ==
    LET s1 == reflection_enter(s) IN
    IF s1.reflection_counter >= MaxReflections
    THEN [add_message(s1, "reflection",
                      "Maximum number of reflections reached (3). Moving to final evaluation.")
            EXCEPT !.current_node = "final_score",
                   !.process_complete = TRUE]
    ELSE LET s2 == add_message([s1 EXCEPT !.reflection_notes = notes],
                               "reflection",
                               "Reflection " \o ToString(s1.reflection_counter)
                                 \o "/3 complete. Requires iteration: "
                                 \o PyBool(notes.requires_iteration))
         IN  [s2 EXCEPT !.current_node = reflection_next(s2, notes)]

\* the rest of reflection after the awaited collaborator call answered
\* notes, on the record s1 the handler was suspended with
reflection_resume(s1, notes) ==
    LET s2 == add_message([s1 EXCEPT !.reflection_notes = notes],
                          "reflection",
                          "Reflection " \o ToString(s1.reflection_counter)
                            \o "/3 complete. Requires iteration: "
                            \o PyBool(notes.requires_iteration))
    IN  [s2 EXCEPT !.current_node = reflection_next(s2, notes)]

\* reflection, from its call to its return: at the ceiling it returns
\* without a collaborator call, below it awaits the answer notes
reflection(s, notes) ==
    LET s1 == reflection_enter(s) IN
    IF s1.reflection_counter >= MaxReflections
    THEN [add_message(s1, "reflection",
                      "Maximum number of reflections reached (3). Moving to final evaluation.")
            EXCEPT !.current_node = "final_score"]
    ELSE reflection_resume(s1, notes)

\* final_score as it would be without the assignment of process_complete
final_score_not_complete(s, evaluation) ==
    add_message([s EXCEPT !.final_evaluation = evaluation,
                          !.evaluation_score = [value |-> evaluation.feasibility_score],
                          !.final_recommendation = evaluation.executive_summary],
                "final_score",
                "Final evaluation complete. Score: "
                  \o ToString(evaluation.feasibility_score) \o "/10. "
                  \o "Go decision: " \o PyBool(evaluation.go_decision))

\* final_score
final_score(s, evaluation) ==
    add_message([s EXCEPT !.final_evaluation = evaluation,
                          !.evaluation_score = [value |-> evaluation.feasibility_score],
                          !.final_recommendation = evaluation.executive_summary,
                          !.process_complete = TRUE],
                "final_score",
                "Final evaluation complete. Score: "
                  \o ToString(evaluation.feasibility_score) \o "/10. "
                  \o "Go decision: " \o PyBool(evaluation.go_decision))

\* the failing handlers as they would be if process_feedback logged its
\* "Processing feedback" message before testing for the feedback
handler_failed_logs(node, s) ==
    IF node = "process_feedback"
    THEN add_message(s, "feedback_processor", "Processing feedback. ")
    ELSE s

\* the failing handlers as they would be if technical_feasibility dropped
\* the previous assessment before awaiting the new one
handler_failed_resets(node, s) ==
    IF node = "technical_feasibility"
    THEN [s EXCEPT !.technical_assessment = None]
    ELSE s

\* the failing handlers as they would be if reflection took its increment
\* back when the collaborator call fails
handler_failed_rolls_back(node, s) ==
    IF node = "reflection"
    THEN [s EXCEPT !.reflection_counter = @ - 1]
    ELSE s

\* The record a handler leaves behind when it raises at its collaborator
\* call (or, for process_feedback, at its test of the feedback), given the
\* record s at the raise: the raise writes nothing and nothing is undone,
\* so what reflection wrote before the await (its counter) stays.
handler_failed(node, s) == s

(* The router of the graph: src/packaging_evaluation/graph.py *)

\* the conditional edges as they would be with the target of operations
\* misspelt
AllowedNext_misspelt(node) ==
    CASE node = "image_analyzer"        -> {"concept_breaker"}
      [] node = "concept_breaker"       -> {"human_feedback"}
      [] node = "human_feedback"        -> {"human_feedback", "process_feedback"}
      [] node = "process_feedback"      -> {"concept_breaker", "technical_feasibility"}
      [] node = "technical_feasibility" -> {"operations"}
      [] node = "operations"            -> {"reflect"}
      [] node = "reflection"            -> {"technical_feasibility", "operations",
                                            "final_score"}
      [] node = "final_score"           -> {END}

\* the targets of the conditional edges added for each node
AllowedNext(node) ==
    CASE node = "image_analyzer"        -> {"concept_breaker"}
      [] node = "concept_breaker"       -> {"human_feedback"}
      [] node = "human_feedback"        -> {"human_feedback", "process_feedback"}
      [] node = "process_feedback"      -> {"concept_breaker", "technical_feasibility"}
      [] node = "technical_feasibility" -> {"operations"}
      [] node = "operations"            -> {"reflection"}
      [] node = "reflection"            -> {"technical_feasibility", "operations",
                                            "final_score"}
      [] node = "final_score"           -> {END}

\* graph.set_entry_point
EntryPoint == "image_analyzer"

\* the nodes the graph reaches from the nodes in seen by following
\* conditional edges
RECURSIVE ReachableNodes(_)
ReachableNodes(seen) ==
    LET more == (UNION {AllowedNext(n) : n \in seen \cap Nodes}) \ seen IN
    IF more = {} THEN seen ELSE ReachableNodes(seen \cup more)

\* router as it would be if pending feedback were routed to process_feedback
router_reads_feedback(s) ==
    IF s.process_complete THEN END
    ELSE IF s.user_feedback # None THEN "process_feedback"
    ELSE s.current_node

\* router: END once the process is complete, else the record's current_node
\* (both remaining branches return current_node)
router(s) ==
    IF s.process_complete THEN END
    ELSE IF s.awaiting_human_input THEN s.current_node
    ELSE s.current_node

(* The driver loop: evaluate_packaging in src/web/api.py *)

\* the while condition as it would be without the test of
\* awaiting_human_input
LoopContinues_ignores_awaiting(s) == ~s.process_complete

\* the while condition as it would be without the test of process_complete
LoopContinues_ignores_complete(s) == ~s.awaiting_human_input

\* the while condition as it would be with "or" for "and"
LoopContinues_either(s) == ~s.process_complete \/ ~s.awaiting_human_input

\* the while condition as it would be if the loop kept polling
\* human_feedback until feedback is there
LoopContinues_while_pending(s) ==
    ~s.process_complete /\ (~s.awaiting_human_input \/ s.user_feedback = None)

\* the condition of the while loop
LoopContinues(s) == ~s.process_complete /\ ~s.awaiting_human_input

\* the if/elif chain of the loop body as it would be with a final else that
\* falls back to the first handler instead of raising
Dispatch_falls_back(node) ==
    IF node \in Nodes THEN node ELSE "image_analyzer"

\* the if/elif chain of the loop body: the handler selected for a
\* current_node, "raise" for the final else
Dispatch(node) ==
    IF node \in Nodes THEN node ELSE "raise"

\* the loop is at its head with a record it will dispatch to handler node
AtNode(node) ==
    /\ driver = "running"
    /\ awaited = "none"
    /\ LoopContinues(state)
    /\ Dispatch(state.current_node) = node
    /\ Len(state.messages) < MaxMessages

\* a handler returned record s: the loop goes round
Returned(node, s) ==
    /\ prev_state' = IF awaited = node THEN prev_state ELSE state
    /\ state' = s
    /\ awaited' = "none"
    /\ last_step' = node
    /\ raised' = FALSE
    /\ steps_run' = steps_run + 1
    /\ UNCHANGED <<sessions, driver, status, attached, failures, forged>>

\* a handler's collaborator call raised: the except clause of
\* evaluate_packaging turns it into a status 500 error
Raised(node) ==
    /\ failures < MaxFailures
    /\ prev_state' = IF awaited = node THEN prev_state ELSE state
    /\ state' = handler_failed(node, state)
    /\ awaited' = "none"
    /\ driver' = "failed"
    /\ status' = 500
    /\ failures' = failures + 1
    /\ last_step' = node
    /\ raised' = TRUE
    /\ UNCHANGED <<sessions, steps_run, attached, forged>>

\* Init: the record evaluate_packaging constructs from a request
Init ==
    /\ state \in {NewState(images) : images \in ImageLists}
    /\ prev_state = state
    /\ driver = "idle"
    /\ status = 0
    /\ last_step = "none"
    /\ raised = FALSE
    /\ steps_run = 0
    /\ attached = 0
    /\ failures = 0
    /\ forged = FALSE
    /\ awaited = "none"
    /\ sessions = <<>>

\* evaluate_packaging enters the while loop with the record it constructed
Invoke ==
    /\ driver = "idle"
    /\ driver' = "running"
    /\ status' = 0
    /\ steps_run' = 0
    /\ UNCHANGED <<sessions, awaited, state, prev_state, last_step, raised, attached, failures,
                   forged>>

\* the caller re-invokes the loop on the record of a session whose previous
\* invocation returned or failed: the loop starts from the record's stored
\* current_node
Reinvoke ==
    /\ driver \in {"returned", "failed"}
    /\ driver' = "running"
    /\ status' = 0
    /\ steps_run' = 0
    /\ UNCHANGED <<sessions, awaited, state, prev_state, last_step, raised, attached, failures,
                   forged>>

\* the caller attaches feedback to the record it holds, at a step boundary
\* where the loop is not running (user_feedback is assigned, nothing else).
\* The caller is not held to the suspended record: user_feedback is a public
\* field of the record, so the record may carry feedback before the loop
\* first runs or after a failed invocation.  The properties over all
\* behaviours therefore cover the resume of a suspended record and more.
AttachFeedback ==
    /\ driver \in {"idle", "returned", "failed"}
    /\ attached < MaxFeedback
    /\ \E fb \in UserFeedbacks :
          state' = [state EXCEPT !.user_feedback = fb]
    /\ attached' = attached + 1
    /\ UNCHANGED <<sessions, awaited, driver, status, last_step, raised, steps_run, failures,
                   forged, prev_state>>

\* the EvaluationResponse built from the record after the loop
Response(s) ==
    [state            |-> s,
     current_node     |-> s.current_node,
     messages         |-> s.messages,
     process_complete |-> s.process_complete]

\* the loop as it would be with "if" for "while": it returns after one
\* handler, whatever the record says
LoopExit_after_one_step ==
    /\ driver = "running"
    /\ steps_run >= 1 \/ ~LoopContinues(state)
    /\ driver' = "returned"
    /\ status' = 200
    /\ UNCHANGED <<sessions, awaited, state, prev_state, last_step, raised, steps_run, attached,
                   failures, forged>>

\* the while condition is false: the loop exits and the response is built
LoopExit ==
    /\ driver = "running"
    /\ ~LoopContinues(state)
    /\ driver' = "returned"
    /\ status' = 200
    /\ UNCHANGED <<sessions, awaited, state, prev_state, last_step, raised, steps_run, attached,
                   failures, forged>>

DoImageAnalysis ==
    /\ AtNode("image_analyzer")
    /\ \E analysis \in ImageAnalyses :
          Returned("image_analyzer", image_analysis(state, analysis))

FailImageAnalysis ==
    /\ AtNode("image_analyzer")
    /\ image_analysis_calls(state)
    /\ Raised("image_analyzer")

DoConceptBreaker ==
    /\ AtNode("concept_breaker")
    /\ \E components \in ComponentLists :
          Returned("concept_breaker", concept_breaker(state, components))

FailConceptBreaker ==
    /\ AtNode("concept_breaker")
    /\ Raised("concept_breaker")

DoHumanFeedback ==
    /\ AtNode("human_feedback")
    /\ Returned("human_feedback", human_feedback(state))

DoProcessFeedback ==
    /\ AtNode("process_feedback")
    /\ ~process_feedback_raises(state)
    /\ Returned("process_feedback", process_feedback(state))

DoTechnicalFeasibility ==
    /\ AtNode("technical_feasibility")
    /\ \E assessment \in TechnicalAssessments :
          Returned("technical_feasibility", technical_feasibility(state, assessment))

FailTechnicalFeasibility ==
    /\ AtNode("technical_feasibility")
    /\ Raised("technical_feasibility")

DoOperations ==
    /\ AtNode("operations")
    /\ \E assessment \in OperationalAssessments :
          Returned("operations", operations(state, assessment))

FailOperations ==
    /\ AtNode("operations")
    /\ Raised("operations")

\* reflection is called below the ceiling: it increments its counter and
\* is suspended at its awaited collaborator call, the request still in the
\* loop
EnterReflection ==
    /\ AtNode("reflection")
    /\ reflection_calls(state)
    /\ prev_state' = state
    /\ state' = reflection_enter(state)
    /\ awaited' = "reflection"
    /\ UNCHANGED <<sessions, driver, status, last_step, raised, steps_run,
                   attached, failures, forged>>

\* the awaited collaborator call answered: reflection writes the notes,
\* its message and the next node, and returns
ResumeReflection ==
    /\ driver = "running"
    /\ awaited = "reflection"
    /\ \E notes \in ReflectionAnswers :
          Returned("reflection", reflection_resume(state, notes))

\* reflection is called at the ceiling: it returns without awaiting
CeilingReflection ==
    /\ AtNode("reflection")
    /\ ~reflection_calls(state)
    /\ \E notes \in ReflectionAnswers :
          Returned("reflection", reflection(state, notes))

DoReflection ==
    \/ ResumeReflection
    \/ CeilingReflection

\* the awaited collaborator call of reflection raised
FailReflection ==
    /\ driver = "running"
    /\ awaited = "reflection"
    /\ Raised("reflection")

DoFinalScore ==
    /\ AtNode("final_score")
    /\ \E evaluation \in FinalEvaluations :
          Returned("final_score", final_score(state, evaluation))

FailFinalScore ==
    /\ AtNode("final_score")
    /\ Raised("final_score")

\* the handlers the loop dispatches to, each running to its return
Step ==
    \/ DoImageAnalysis
    \/ DoConceptBreaker
    \/ DoHumanFeedback
    \/ DoProcessFeedback
    \/ DoTechnicalFeasibility
    \/ DoOperations
    \/ DoReflection
    \/ DoFinalScore

\* a handler's collaborator call raising
Fail ==
    \/ FailImageAnalysis
    \/ FailConceptBreaker
    \/ FailTechnicalFeasibility
    \/ FailOperations
    \/ FailReflection
    \/ FailFinalScore

Next ==
    \/ Invoke
    \/ Reinvoke
    \/ AttachFeedback
    \/ LoopExit
    \/ EnterReflection
    \/ Step
    \/ Fail

Spec == Init /\ [][Next]_vars

\* A session in which no collaborator call fails and the while loop, once
\* entered, keeps dispatching until its condition is false.
NextNoFail ==
    \/ Invoke
    \/ Reinvoke
    \/ AttachFeedback
    \/ LoopExit
    \/ EnterReflection
    \/ Step

LiveSpec ==
    /\ Init
    /\ [][NextNoFail]_vars
    /\ WF_vars(EnterReflection)
    /\ WF_vars(Step)
    /\ WF_vars(LoopExit)

(* Sessions over a corrupted or forged record *)

\* the values a forged current_node may take: the registered nodes and one
\* identifier that is not registered
ForgedNodes == Nodes \cup {"no_such_node"}

\* the record reaches the head of the loop, or the caller, with a
\* current_node the handlers did not write (at a step boundary); the record
\* is forged once, before any feedback was attached and before any
\* collaborator failed; the collaborators may fail afterwards
Corrupt ==
    /\ ~forged
    /\ awaited = "none"
    /\ failures = 0
    /\ attached = 0
    /\ \E node \in ForgedNodes \ {state.current_node} :
          state' = [state EXCEPT !.current_node = node]
    /\ forged' = TRUE
    /\ UNCHANGED <<sessions, awaited, driver, status, last_step, raised, steps_run, attached,
                   failures, prev_state>>

\* the final else of the loop body: HTTPException(400, "Unknown node"),
\* which the except clause of evaluate_packaging turns into status 500
UnknownNode ==
    /\ driver = "running"
    /\ LoopContinues(state)
    /\ Dispatch(state.current_node) = "raise"
    /\ driver' = "failed"
    /\ status' = 500
    /\ UNCHANGED <<sessions, awaited, state, prev_state, last_step, raised, steps_run, attached,
                   failures, forged>>

\* process_feedback raises ValueError on a record without feedback
ProcessFeedbackError ==
    /\ AtNode("process_feedback")
    /\ process_feedback_raises(state)
    /\ prev_state' = state
    /\ state' = handler_failed("process_feedback", state)
    /\ driver' = "failed"
    /\ status' = 500
    /\ last_step' = "process_feedback"
    /\ raised' = TRUE
    /\ UNCHANGED <<sessions, awaited, steps_run, attached, failures, forged>>

NextForged ==
    \/ Invoke
    \/ Reinvoke
    \/ AttachFeedback
    \/ LoopExit
    \/ EnterReflection
    \/ Step
    \/ Fail
    \/ Corrupt
    \/ UnknownNode
    \/ ProcessFeedbackError

ForgedSpec == Init /\ [][NextForged]_vars

(* Concurrent sessions: the server handling two requests at once *)

\* the requests in flight
SessionIds == {1, 2}

\* the records the handler selected by the if/elif chain may return for
\* record s, over the answers of its collaborator (none when it raises)
HandlerResults(s) ==
    CASE Dispatch(s.current_node) = "image_analyzer" ->
            {image_analysis(s, a) : a \in ImageAnalyses}
      [] Dispatch(s.current_node) = "concept_breaker" ->
            {concept_breaker(s, c) : c \in ComponentLists}
      [] Dispatch(s.current_node) = "human_feedback" ->
            {human_feedback(s)}
      [] Dispatch(s.current_node) = "process_feedback" ->
            IF process_feedback_raises(s) THEN {} ELSE {process_feedback(s)}
      [] Dispatch(s.current_node) = "technical_feasibility" ->
            {technical_feasibility(s, a) : a \in TechnicalAssessments}
      [] Dispatch(s.current_node) = "operations" ->
            {operations(s, a) : a \in OperationalAssessments}
      [] Dispatch(s.current_node) = "reflection" ->
            {reflection(s, n) : n \in ReflectionAnswers}
      [] Dispatch(s.current_node) = "final_score" ->
            {final_score(s, e) : e \in FinalEvaluations}
      [] OTHER -> {}

\* the assignment as it would be if the message log were one list shared by
\* every record (a class-level list instead of a default_factory)
Store_shared_messages(all, i, s) ==
    [j \in DOMAIN all |->
        IF j = i THEN [all[j] EXCEPT !.rec = s]
        ELSE [all[j] EXCEPT !.rec.messages = s.messages]]

\* "state = await handler(state)" in request i: the handler mutated the
\* record of that request, which is local to its evaluate_packaging call
Store(all, i, s) ==
    [all EXCEPT ![i].rec = s]

\* the images of request i: the first request carries one, the second none
SessionImages(i) ==
    IF i = 1 THEN <<"data:image/png;base64,AAAA">> ELSE <<>>

\* two requests arrived: each evaluate_packaging call built its own record
InitSessions ==
    /\ state = NewState(<<>>)
    /\ prev_state = state
    /\ driver = "idle"
    /\ status = 0
    /\ last_step = "none"
    /\ raised = FALSE
    /\ steps_run = 0
    /\ attached = 0
    /\ failures = 0
    /\ forged = FALSE
    /\ awaited = "none"
    /\ sessions = [i \in SessionIds |->
                       [rec |-> NewState(SessionImages(i)), pc |-> "idle",
                        awaited |-> "none"]]

\* request i enters its while loop
SessionInvoke ==
    /\ \E i \in SessionIds :
          /\ sessions[i].pc = "idle"
          /\ sessions' = [sessions EXCEPT ![i].pc = "running"]
    /\ UNCHANGED session_vars

\* the caller of request i attaches feedback to its record before the loop
SessionAttach ==
    /\ \E i \in SessionIds :
          /\ sessions[i].pc = "idle"
          /\ sessions[i].rec.user_feedback = None
          /\ \E fb \in UserFeedbacks :
                sessions' = [sessions EXCEPT ![i].rec.user_feedback = fb]
    /\ UNCHANGED session_vars

\* the handler the loop selects for record s awaits a collaborator
HandlerAwaits(s) ==
    CASE Dispatch(s.current_node) = "image_analyzer" -> image_analysis_calls(s)
      [] Dispatch(s.current_node) = "reflection"     -> reflection_calls(s)
      [] Dispatch(s.current_node) \in {"concept_breaker", "technical_feasibility",
                                       "operations", "final_score"} -> TRUE
      [] OTHER -> FALSE

\* the loop of request i calls the handler of its record's current_node,
\* which runs to its return (every handler but reflection below the
\* ceiling writes to the record only after its awaited call)
SessionStep ==
    /\ \E i \in SessionIds :
          /\ sessions[i].pc = "running"
          /\ sessions[i].awaited = "none"
          /\ LoopContinues(sessions[i].rec)
          /\ ~(/\ Dispatch(sessions[i].rec.current_node) = "reflection"
               /\ reflection_calls(sessions[i].rec))
          /\ \E s \in HandlerResults(sessions[i].rec) :
                sessions' = Store(sessions, i, s)
    /\ UNCHANGED session_vars

\* the loop of request i calls reflection below the ceiling: the counter is
\* incremented and the handler is suspended at its awaited call, where the
\* other request may run
SessionEnterReflection ==
    /\ \E i \in SessionIds :
          /\ sessions[i].pc = "running"
          /\ sessions[i].awaited = "none"
          /\ LoopContinues(sessions[i].rec)
          /\ Dispatch(sessions[i].rec.current_node) = "reflection"
          /\ reflection_calls(sessions[i].rec)
          /\ sessions' = [Store(sessions, i, reflection_enter(sessions[i].rec))
                             EXCEPT ![i].awaited = "reflection"]
    /\ UNCHANGED session_vars

\* the awaited call of request i's reflection answered
SessionResumeReflection ==
    /\ \E i \in SessionIds :
          /\ sessions[i].pc = "running"
          /\ sessions[i].awaited = "reflection"
          /\ \E notes \in ReflectionAnswers :
                sessions' = [Store(sessions, i,
                                   reflection_resume(sessions[i].rec, notes))
                                EXCEPT ![i].awaited = "none"]
    /\ UNCHANGED session_vars

\* the awaited collaborator call of request i's handler raised: the request
\* is answered with status 500
SessionFail ==
    /\ \E i \in SessionIds :
          /\ sessions[i].pc = "running"
          /\ \/ sessions[i].awaited = "reflection"
             \/ /\ sessions[i].awaited = "none"
                /\ LoopContinues(sessions[i].rec)
                /\ Dispatch(sessions[i].rec.current_node) # "reflection"
                /\ HandlerAwaits(sessions[i].rec)
          /\ sessions' = [Store(sessions, i,
                                handler_failed(Dispatch(sessions[i].rec.current_node),
                                               sessions[i].rec))
                             EXCEPT ![i].pc = "failed", ![i].awaited = "none"]
    /\ UNCHANGED session_vars

\* the loop of request i ends and its response is built
SessionExit ==
    /\ \E i \in SessionIds :
          /\ sessions[i].pc = "running"
          /\ sessions[i].awaited = "none"
          /\ ~LoopContinues(sessions[i].rec)
          /\ sessions' = [sessions EXCEPT ![i].pc = "returned"]
    /\ UNCHANGED session_vars

NextSessions ==
    \/ SessionInvoke
    \/ SessionAttach
    \/ SessionStep
    \/ SessionEnterReflection
    \/ SessionResumeReflection
    \/ SessionFail
    \/ SessionExit

SessionsSpec == InitSessions /\ [][NextSessions]_vars

\* the step from state to state' is handler node returning to the loop
Ran(node) == steps_run' = steps_run + 1 /\ last_step' = node

\* the number of entries of the message log written by this agent
CountAgent(agent) ==
    Cardinality({i \in 1..Len(state.messages) : state.messages[i].agent = agent})

\* the message log holds an entry with this content
Logged(content) ==
    \E i \in 1..Len(state.messages) : state.messages[i].content = content

TypeOK ==
    /\ state.current_node \in Nodes
    /\ state.process_complete \in BOOLEAN
    /\ state.awaiting_human_input \in BOOLEAN
    /\ state.reflection_counter \in Nat
    /\ state.user_feedback \in UserFeedbacks \cup {None}
    /\ driver \in {"idle", "running", "returned", "failed"}
    /\ raised \in BOOLEAN
    /\ status \in {0, 200, 500}
    /\ Len(state.messages) < MaxMessages - 1
    /\ forged = FALSE
    /\ awaited \in {"none", "reflection"}

(* The reflection guard *)

\* C1: in every reachable state of a session reflection_counter is at most
\* 3, and final_score is never entered (neither pending as current_node nor
\* called) with reflection_counter greater than 3.
C1_ReflectionCounterBounded ==
    /\ state.reflection_counter <= 3
    /\ state.current_node = "final_score" => state.reflection_counter <= 3
    /\ last_step = "final_score" => prev_state.reflection_counter <= 3

\* the session completed after the counter reached the ceiling
C1_Witness ==
    /\ state.reflection_counter = 3
    /\ last_step = "final_score"
    /\ ~raised
    /\ state.process_complete

\* C2: a reflection execution in which the counter reaches the ceiling 3
\* after the entry increment sets current_node to final_score, whatever the
\* collaborator's requires_iteration flag and questions list are.
C2_CeilingRoutesToFinalScore ==
    [][(Ran("reflection") /\ state'.reflection_counter >= 3)
          => state'.current_node = "final_score"]_vars

\* reflection returned at the ceiling, after a reflection whose notes asked
\* for another iteration and raised questions
C2_Witness ==
    /\ last_step = "reflection"
    /\ ~raised
    /\ prev_state.reflection_counter = 2
    /\ state.reflection_counter = 3
    /\ state.current_node = "final_score"
    /\ state.reflection_notes # None
    /\ state.reflection_notes.requires_iteration
    /\ state.reflection_notes.questions # <<>>

\* C3: from any state in which the loop is about to dispatch
\* technical_feasibility, operations, reflection or final_score, when no
\* collaborator call fails, process_complete eventually becomes true,
\* whatever the reflection collaborator answers.
C3_ReassessmentTerminates ==
    (/\ driver = "running"
     /\ LoopContinues(state)
     /\ state.current_node \in {"technical_feasibility", "operations",
                                "reflection", "final_score"})
        ~> state.process_complete

\* the session completed after three reflections, the first two of which
\* asked for another iteration
C3_Witness ==
    /\ state.process_complete
    /\ state.reflection_counter = 3
    /\ Logged("Reflection 1/3 complete. Requires iteration: True")
    /\ Logged("Reflection 2/3 complete. Requires iteration: True")
    /\ Logged("Maximum number of reflections reached (3). Moving to final evaluation.")

(* The human feedback gate *)

\* C4: human_feedback executed with user_feedback absent appends exactly one
\* feedback-request message, sets awaiting_human_input and leaves
\* current_node at human_feedback; and while the record is parked with no
\* feedback no handler is executed, so human_feedback does not run again.
C4_SuspendsAtHumanFeedback ==
    [][/\ (Ran("human_feedback") /\ state.user_feedback = None)
            => /\ state'.messages =
                     Append(state.messages,
                            [agent |-> "human_feedback",
                             content |-> FeedbackPrompt(state.components)])
               /\ state'.awaiting_human_input
               /\ state'.current_node = "human_feedback"
       /\ (state.awaiting_human_input /\ state.user_feedback = None)
            => steps_run' # steps_run + 1]_vars

\* the loop was invoked again on the parked record and returned without
\* running a handler
C4_Witness ==
    /\ state.awaiting_human_input
    /\ state.user_feedback = None
    /\ state.current_node = "human_feedback"
    /\ last_step = "human_feedback"
    /\ driver = "returned"
    /\ steps_run = 0

\* C5: when human_feedback executes with user_feedback present, the
\* record it returns has awaiting_human_input = false and current_node =
\* process_feedback.  Stated of every record the session can hold at
\* human_feedback with feedback present.
C5_HumanFeedbackClearsAwaiting ==
    (state.current_node = "human_feedback" /\ state.user_feedback # None)
        => /\ ~human_feedback(state).awaiting_human_input
           /\ human_feedback(state).current_node = "process_feedback"

\* C6: when the loop is re-invoked on a record parked at human_feedback to
\* which the caller attached feedback, it executes human_feedback (and goes
\* on); it does not exit without executing a handler.
C6_ResumptionMakesProgress ==
    [][(/\ driver = "running"
        /\ steps_run = 0
        /\ state.current_node = "human_feedback"
        /\ state.awaiting_human_input
        /\ state.user_feedback # None)
          => Ran("human_feedback")]_vars

\* C7: in every reachable state awaiting_human_input implies that
\* current_node is human_feedback and that user_feedback is absent.
C7_AwaitingImpliesParkedWithoutFeedback ==
    state.awaiting_human_input
        => /\ state.current_node = "human_feedback"
           /\ state.user_feedback = None

\* C8: after process_feedback executes, user_feedback is absent in the
\* record it returns, for accepting and for rejecting feedback.
C8_ProcessFeedbackClearsFeedback ==
    [][Ran("process_feedback") => state'.user_feedback = None]_vars

\* process_feedback returned with the feedback cleared, in a session that
\* has processed a rejecting and an accepting feedback
C8_Witness ==
    /\ last_step = "process_feedback"
    /\ ~raised
    /\ prev_state.user_feedback # None
    /\ state.user_feedback = None
    /\ Logged("Processing feedback. Changes requested")
    /\ Logged("Processing feedback. Components confirmed correct")

\* C9: process_feedback routes by the feedback's flag only: is_correct sets
\* current_node to technical_feasibility, otherwise to concept_breaker.
C9_ProcessFeedbackRoutesByFlag ==
    [][Ran("process_feedback")
          => state'.current_node =
                IF state.user_feedback.is_correct
                THEN "technical_feasibility"
                ELSE "concept_breaker"]_vars

\* process_feedback returned on rejecting feedback and routed back to
\* concept_breaker
C9_WitnessReject ==
    /\ last_step = "process_feedback"
    /\ ~raised
    /\ prev_state.user_feedback # None
    /\ ~prev_state.user_feedback.is_correct
    /\ state.current_node = "concept_breaker"

\* C10: below the ceiling reflection routes to technical_feasibility when
\* requires_iteration is true and there are questions, to operations when
\* requires_iteration is true and there are none, and to final_score when
\* requires_iteration is false, questions or not.
C10_ReflectionRoutingBelowCeiling ==
    [][(Ran("reflection") /\ state'.reflection_counter < 3)
          => LET notes == state'.reflection_notes IN
             state'.current_node =
                IF notes.requires_iteration /\ notes.questions # <<>>
                THEN "technical_feasibility"
                ELSE IF notes.requires_iteration
                THEN "operations"
                ELSE "final_score"]_vars

\* the second reflection went to final_score with questions open, after the
\* first one asked for an iteration
C10_Witness ==
    /\ last_step = "reflection"
    /\ ~raised
    /\ state.reflection_counter = 2
    /\ ~state.reflection_notes.requires_iteration
    /\ state.reflection_notes.questions # <<>>
    /\ state.current_node = "final_score"
    /\ Logged("Reflection 1/3 complete. Requires iteration: True")

(* Construction, completion and the transition table *)

\* C11: a record constructed with an empty image list has current_node =
\* concept_breaker immediately after construction, and image_analyzer is
\* never executed for that session.
C11_EmptyImagesStartAtConceptBreaker ==
    state.concept_images = <<>>
        => /\ driver = "idle" => state.current_node = "concept_breaker"
           /\ last_step # "image_analyzer"

\* C12: once final_score has executed, process_complete is true, and from
\* then on process_complete stays true, current_node does not change and no
\* handler is called, however often the loop is invoked.
C12_CompletionIsFinal ==
    [][/\ Ran("final_score") => state'.process_complete
       /\ state.process_complete
            => /\ state'.process_complete
               /\ state'.current_node = state.current_node
               /\ steps_run' # steps_run + 1
               /\ failures' = failures
               /\ last_step' = last_step]_vars

\* the loop was invoked again on the completed record and is at its head
C12_Witness ==
    /\ state.process_complete
    /\ last_step = "final_score"
    /\ state.current_node = "final_score"
    /\ driver = "running"
    /\ steps_run = 0

\* C13: the loop invoked on a record with process_complete = true executes
\* no handler and returns the record equal in every field; so does every
\* further invocation.
C13_IdempotentCompletion ==
    [][(state.process_complete /\ (driver = "running" \/ driver' = "running"))
          => /\ state' = state
             /\ steps_run' # steps_run + 1
             /\ failures' = failures
             /\ driver' \in {"running", "returned"}
             /\ driver = "running" => status' = 200]_vars

\* an invocation on a completed record returned with no handler run
C13_Witness ==
    /\ state.process_complete
    /\ state.final_evaluation # None
    /\ driver = "returned"
    /\ status = 200
    /\ steps_run = 0

\* C14: after a handler S returned, the node the driver executes next (END
\* once the process is complete) is a target of S's conditional edges.
C14_TransitionTableConformance ==
    [][\A node \in Nodes :
          Ran(node) => router(state') \in AllowedNext(node)]_vars

\* reflection sent the session back to operations, in a session whose
\* feedback was first rejecting and then accepting
C14_Witness ==
    /\ last_step = "reflection"
    /\ ~raised
    /\ state.current_node = "operations"
    /\ Logged("Processing feedback. Changes requested")
    /\ Logged("Processing feedback. Components confirmed correct")
    /\ CountAgent("concept_breaker") >= 2

(* Errors *)

\* C15: when the record's current_node is a registered node that is not a
\* target of the conditional edges of the node executed last, the
\* transition ends in an error and the handler of current_node is not
\* executed.
C15_RouterValidatesNextStep ==
    [][(/\ driver = "running"
        /\ LoopContinues(state)
        /\ last_step \in Nodes
        /\ ~raised
        /\ state.current_node \in Nodes
        /\ state.current_node \notin AllowedNext(last_step))
          => steps_run' # steps_run + 1]_vars

\* C16: when current_node is not one of the eight registered nodes as the
\* loop resolves it, the loop raises without executing a handler and
\* without modifying the record.
C16_UnknownNodeIsFatal ==
    [][(/\ driver = "running"
        /\ LoopContinues(state)
        /\ state.current_node \notin Nodes)
          => /\ state' = state
             /\ steps_run' = steps_run
             /\ last_step' = last_step
             /\ driver' = "failed"
             /\ status' = 500]_vars

\* the loop failed on an unregistered current_node in the middle of a
\* session
C16_Witness ==
    /\ driver = "failed"
    /\ status = 500
    /\ state.current_node \notin Nodes
    /\ last_step \in Nodes
    /\ forged

\* C17: process_feedback invoked on a record without user_feedback fails
\* and leaves the record unchanged: no message appended, current_node not
\* modified.
C17_ProcessFeedbackWithoutFeedbackFails ==
    [][(/\ driver = "running"
        /\ LoopContinues(state)
        /\ state.current_node = "process_feedback"
        /\ state.user_feedback = None)
          => /\ state' = state
             /\ steps_run' = steps_run
             /\ last_step' = "process_feedback"
             /\ raised'
             /\ driver' = "failed"
             /\ status' = 500]_vars

\* process_feedback raised on a record without feedback
C17_Witness ==
    /\ last_step = "process_feedback"
    /\ raised
    /\ driver = "failed"
    /\ state.current_node = "process_feedback"
    /\ state.user_feedback = None
    /\ state = prev_state

\* C18: when the collaborator call of a handler fails, the record after the
\* failed step equals the record before the handler was called in every
\* field, reflection_counter included.
C18_FailedStepLeavesRecordUnchanged ==
    [][(driver = "running" /\ driver' = "failed" /\ raised')
          => state' = prev_state']_vars

\* C19: a collaborator failure inside technical_feasibility leaves
\* technical_assessment as it was before the call and current_node at
\* technical_feasibility.
C19_FailedTechnicalFeasibilityKeepsAssessment ==
    [][(/\ driver = "running"
        /\ driver' = "failed"
        /\ raised'
        /\ last_step' = "technical_feasibility")
          => /\ state'.technical_assessment = state.technical_assessment
             /\ state'.current_node = "technical_feasibility"]_vars

\* technical_feasibility failed on a re-run, with the assessment of the
\* previous run in the record
C19_WitnessRerun ==
    /\ last_step = "technical_feasibility"
    /\ raised
    /\ driver = "failed"
    /\ prev_state.technical_assessment # None
    /\ state.technical_assessment = prev_state.technical_assessment
    /\ state.current_node = "technical_feasibility"

(* Start *)

\* C20: from a freshly constructed record, with no collaborator failure and
\* no feedback attached, the loop halts first at human_feedback with
\* awaiting_human_input = true and process_complete = false, after
\* concept_breaker ran once, human_feedback once and image_analyzer at
\* most once.
C20_StartHaltsAtHumanFeedback ==
    (attached = 0 /\ failures = 0)
        => /\ CountAgent("concept_breaker") <= 1
           /\ CountAgent("human_feedback") <= 1
           /\ CountAgent("image_analyzer") <= 1
           /\ steps_run <= 3
           /\ driver = "returned"
                => /\ state.current_node = "human_feedback"
                   /\ last_step = "human_feedback"
                   /\ state.awaiting_human_input
                   /\ ~state.process_complete
                   /\ state.user_feedback = None
                   /\ CountAgent("concept_breaker") = 1
                   /\ CountAgent("human_feedback") = 1

\* the first invocation on a record with an image returned after its three
\* handlers
C20_Witness ==
    /\ attached = 0
    /\ failures = 0
    /\ driver = "returned"
    /\ status = 200
    /\ steps_run = 3
    /\ state.concept_images # <<>>
    /\ state.image_analysis # None

(* Feedback scenarios *)

\* C21: after process_feedback executed on feedback with is_correct = false
\* the next handler executed is concept_breaker, which replaces the
\* component list with the one the collaborator derived (and logs its
\* length); human_feedback is executed next, finds no feedback and parks,
\* and the loop returns the record parked at human_feedback with
\* user_feedback absent.
C21_RejectedFeedbackRederives ==
    /\ [][/\ (/\ last_step = "process_feedback"
              /\ ~raised
              /\ ~prev_state.user_feedback.is_correct
              /\ steps_run' = steps_run + 1)
                => /\ last_step' = "concept_breaker"
                   /\ \E c \in ComponentLists :
                         /\ state'.components = c
                         /\ state'.messages =
                               Append(state.messages,
                                      [agent |-> "concept_breaker",
                                       content |->
                                          "Concept breakdown complete. Identified "
                                            \o ToString(Len(c)) \o " components."])
                   /\ state'.current_node = "human_feedback"
          /\ (/\ last_step = "concept_breaker"
              /\ ~raised
              /\ state.user_feedback = None
              /\ steps_run' = steps_run + 1)
                => /\ last_step' = "human_feedback"
                   /\ state'.awaiting_human_input
                   /\ state'.user_feedback = None]_vars
    /\ (/\ last_step = "process_feedback"
        /\ ~raised
        /\ driver = "running"
        /\ state.current_node = "concept_breaker")
          ~> (/\ driver = "returned"
              /\ last_step = "human_feedback"
              /\ state.current_node = "human_feedback"
              /\ state.awaiting_human_input
              /\ ~state.process_complete
              /\ state.user_feedback = None)

\* the session is parked again after a rejected one-component list was
\* replaced by a two-component one
C21_Witness ==
    /\ driver = "returned"
    /\ last_step = "human_feedback"
    /\ state.awaiting_human_input
    /\ state.user_feedback = None
    /\ Logged("Processing feedback. Changes requested")
    /\ Logged("Concept breakdown complete. Identified 1 components.")
    /\ Logged("Concept breakdown complete. Identified 2 components.")
    /\ state.components = <<Comp2, Comp1>>

\* C22: the first handler that runs with user_feedback present returns a
\* record in which user_feedback is absent, so that feedback is present
\* during at most one handler execution.
C22_FeedbackPresentForOneStep ==
    [][(steps_run' = steps_run + 1 /\ state.user_feedback # None)
          => state'.user_feedback = None]_vars

(* Routing and the control fields *)

\* C23: two records that agree on process_complete, awaiting_human_input
\* and current_node get the same answer from the router, whatever their
\* counters, feedback, components and message logs are.  Stated of every
\* record of a session against the record before the last handler call
\* and against records that differ from it in the other fields.
C23_RoutingDeterminism ==
    /\ \A c \in 0..MaxReflections, f \in UserFeedbacks \cup {None},
          m \in {<<>>, state.messages}, k \in ComponentLists \cup {<<>>} :
          router([state EXCEPT !.reflection_counter = c,
                               !.user_feedback = f,
                               !.messages = m,
                               !.components = k]) = router(state)
    /\ (/\ prev_state.process_complete = state.process_complete
        /\ prev_state.awaiting_human_input = state.awaiting_human_input
        /\ prev_state.current_node = state.current_node)
          => router(prev_state) = router(state)

\* two records of a session that agree on the three routing fields and
\* differ in reflection_counter and user_feedback
C23_Witness ==
    /\ last_step = "reflection"
    /\ raised
    /\ prev_state.current_node = state.current_node
    /\ prev_state.reflection_counter # state.reflection_counter
    /\ prev_state.user_feedback = None
    /\ state.user_feedback # None
    /\ router(state) = "reflection"

\* C24: process_complete starts false, no step changes it from true to
\* false (no handler applied to a completed record returns it false), and
\* the only step that changes it to true is final_score returning.
C24_ProcessCompleteMonotonic ==
    /\ ~state.process_complete
    /\ [][/\ state.process_complete => state'.process_complete
          /\ (~state.process_complete /\ state'.process_complete)
                => Ran("final_score")
          /\ state.process_complete
                => /\ \A a \in ImageAnalyses :
                         image_analysis(state, a).process_complete
                   /\ \A c \in ComponentLists :
                         concept_breaker(state, c).process_complete
                   /\ human_feedback(state).process_complete
                   /\ state.user_feedback # None
                         => process_feedback(state).process_complete
                   /\ \A a \in TechnicalAssessments :
                         technical_feasibility(state, a).process_complete
                   /\ \A a \in OperationalAssessments :
                         operations(state, a).process_complete
                   /\ \A n \in ReflectionAnswers :
                         reflection(state, n).process_complete
                   /\ \A e \in FinalEvaluations :
                         final_score(state, e).process_complete]_vars

\* final_score has just returned and set process_complete, in a session
\* that reached the reflection ceiling
C24_Witness ==
    /\ state.process_complete
    /\ ~prev_state.process_complete
    /\ last_step = "final_score"
    /\ ~raised
    /\ driver = "running"
    /\ steps_run >= 1
    /\ Logged("Maximum number of reflections reached (3). Moving to final evaluation.")

\* C25: every entry to reflection increments reflection_counter by
\* exactly 1, before the collaborator is called (the handler is suspended
\* at the call with the counter already incremented, or returns at the
\* ceiling), and no other step changes it, neither the answer nor the
\* failure of the call; so it never decreases, and it counts the
\* reflections that returned, those that failed and the one in progress.
C25_ReflectionCounterCountsEntries ==
    [][/\ state'.reflection_counter =
             state.reflection_counter
               + (IF /\ awaited = "none"
                     /\ \/ awaited' = "reflection"
                        \/ Ran("reflection")
                  THEN 1 ELSE 0)
       /\ awaited' = "reflection"
             => /\ state' = reflection_enter(state)
                /\ driver' = "running"
       /\ state.reflection_counter >= CountAgent("reflection")
       /\ state.reflection_counter <=
             CountAgent("reflection") + failures
               + (IF awaited = "reflection" THEN 1 ELSE 0)]_vars

\* a reflection whose collaborator call failed left the counter at 2, after
\* one reflection that returned
C25_Witness ==
    /\ last_step = "reflection"
    /\ raised
    /\ prev_state.reflection_counter = 1
    /\ state.reflection_counter = 2
    /\ CountAgent("reflection") = 1

\* C26: the message log is append-only: over every step the log before is
\* a prefix of the log after, and add_message appends exactly one entry
\* and changes no other field.
C26_MessageLogAppendOnly ==
    [][/\ Len(state'.messages) >= Len(state.messages)
       /\ SubSeq(state'.messages, 1, Len(state.messages)) = state.messages
       /\ LET s1 == add_message(state, "agent", "content") IN
             /\ s1.messages =
                   Append(state.messages,
                          [agent |-> "agent", content |-> "content"])
             /\ s1 = [state EXCEPT !.messages = s1.messages]]_vars

\* process_feedback appended its two messages to a log that held entries
C26_Witness ==
    /\ last_step = "process_feedback"
    /\ ~raised
    /\ Len(prev_state.messages) >= 2
    /\ Len(state.messages) = Len(prev_state.messages) + 2
    /\ SubSeq(state.messages, 1, Len(prev_state.messages)) = prev_state.messages

\* C27: in every state of a session current_node is one of the eight
\* registered nodes; and in every state with process_complete true the
\* handler executed last is final_score, the router answers END and the
\* loop does not continue (no transition followed completion).
C27_RegisteredNodeUntilComplete ==
    /\ state.current_node \in Nodes
    /\ state.process_complete
          => /\ last_step = "final_score"
             /\ ~raised
             /\ router(state) = END
             /\ ~LoopContinues(state)

\* a session that completed after one reflection, its loop returned
C27_Witness ==
    /\ state.process_complete
    /\ state.current_node = "final_score"
    /\ state.reflection_counter = 1
    /\ driver = "returned"
    /\ status = 200
    /\ steps_run >= 1

(* Halting *)

\* C28: the loop returns only between handler calls and only when
\* process_complete or awaiting_human_input holds, returning the record as
\* it is, never while a handler is suspended at its awaited call; when
\* neither holds after a handler returned the next step is a handler call
\* (returning, raising, or suspended at its awaited call); when one holds
\* the next step is the return, with no handler called.  A record on
\* which both hold ends
\* the loop and is answered as complete: process_complete is tested first
\* and the response carries process_complete = true.
C28_HaltsExactlyAtSuspensionConditions ==
    [][/\ (driver = "running" /\ driver' = "returned")
             => /\ state.process_complete \/ state.awaiting_human_input
                /\ awaited = "none"
                /\ state' = state
                /\ steps_run' = steps_run
                /\ status' = 200
       /\ (driver = "running" /\ LoopContinues(state))
             => /\ driver' # "returned"
                /\ \/ steps_run' = steps_run + 1
                   \/ driver' = "failed"
                   \/ awaited = "none" /\ awaited' = "reflection"
       /\ (driver = "running" /\ ~LoopContinues(state))
             => /\ driver' = "returned"
                /\ steps_run' = steps_run
       /\ LET both == [state EXCEPT !.process_complete = TRUE,
                                    !.awaiting_human_input = TRUE] IN
             /\ ~LoopContinues(both)
             /\ router(both) = END
             /\ Response(both).process_complete]_vars

\* the loop ran eight handlers without returning in between and returned
\* the completed record
C28_Witness ==
    /\ driver = "returned"
    /\ status = 200
    /\ state.process_complete
    /\ ~state.awaiting_human_input
    /\ steps_run = 8
    /\ failures = 0
    /\ Response(state).process_complete

(* Concurrency *)

\* C29: when the steps of two sessions are interleaved, every step changes
\* the record and loop position of one session only, and takes that
\* session from where it was to a successor it has when running alone
\* (entering the loop, feedback attached before the loop, a handler of its
\* own current_node applied to its own record, reflection suspended at its
\* awaited call and resumed, a handler raising, the loop returning); the
\* other session's record, message log included, is untouched, also while
\* the session is suspended inside reflection.
C29_SessionIsolation ==
    [][\A i \in SessionIds :
          sessions'[i] # sessions[i]
            => /\ \A j \in SessionIds \ {i} : sessions'[j] = sessions[j]
               /\ LET a == sessions[i]
                      b == sessions'[i] IN
                  \/ /\ a.pc = "idle"
                     /\ b = [a EXCEPT !.pc = "running"]
                  \/ /\ a.pc = "idle"
                     /\ a.rec.user_feedback = None
                     /\ b.rec.user_feedback \in UserFeedbacks
                     /\ b = [a EXCEPT !.rec.user_feedback = b.rec.user_feedback]
                  \/ /\ a.pc = "running"
                     /\ a.awaited = "none"
                     /\ LoopContinues(a.rec)
                     /\ \/ /\ b.rec \in HandlerResults(a.rec)
                           /\ b = [a EXCEPT !.rec = b.rec]
                        \/ /\ a.rec.current_node = "reflection"
                           /\ b = [a EXCEPT !.rec = reflection_enter(a.rec),
                                            !.awaited = "reflection"]
                        \/ /\ HandlerAwaits(a.rec)
                           /\ b = [a EXCEPT !.pc = "failed"]
                  \/ /\ a.pc = "running"
                     /\ a.awaited = "reflection"
                     /\ \/ /\ b.rec \in {reflection_resume(a.rec, n) :
                                            n \in ReflectionAnswers}
                           /\ b = [a EXCEPT !.rec = b.rec, !.awaited = "none"]
                        \/ b = [a EXCEPT !.pc = "failed", !.awaited = "none"]
                  \/ /\ a.pc = "running"
                     /\ a.awaited = "none"
                     /\ ~LoopContinues(a.rec)
                     /\ b = [a EXCEPT !.pc = "returned"]]_vars

\* session 1 is suspended inside its first reflection, its counter
\* incremented and nothing else written, while session 2 has gone on to
\* its own reflection and returned from it
C29_Witness ==
    /\ sessions # <<>>
    /\ sessions[1].pc = "running"
    /\ sessions[1].awaited = "reflection"
    /\ sessions[1].rec.reflection_counter = 1
    /\ sessions[1].rec.reflection_notes = None
    /\ sessions[2].pc = "running"
    /\ sessions[2].awaited = "none"
    /\ sessions[2].rec.reflection_counter = 1
    /\ sessions[2].rec.reflection_notes # None
    /\ sessions[2].rec.current_node = "operations"

\* C30: while the record is parked (awaiting_human_input true, no feedback
\* attached) no step calls a handler or changes a field of the record,
\* however often the loop is re-invoked; the only change is the caller
\* attaching feedback.  Nothing counts iterations or time.
C30_ParkedStaysParked ==
    [][(state.awaiting_human_input /\ state.user_feedback = None)
          => /\ steps_run' # steps_run + 1
             /\ failures' = failures
             /\ last_step' = last_step
             /\ driver' # "failed"
             /\ \/ state' = state
                \/ /\ attached' = attached + 1
                   /\ state'.user_feedback # None
                   /\ state' = [state EXCEPT !.user_feedback =
                                                state'.user_feedback]]_vars

\* the loop was re-invoked on the parked record, to which no feedback was
\* ever attached, and is at its head
C30_Witness ==
    /\ state.awaiting_human_input
    /\ state.user_feedback = None
    /\ attached = 0
    /\ driver = "running"
    /\ status = 0
    /\ steps_run = 0
    /\ last_step = "human_feedback"

(* The graph and the work after acceptance *)

\* C31: every target of a conditional edge of a registered node is a
\* registered node or END, and every registered node (and END) is reached
\* from the entry point by following conditional edges; in particular the
\* node a session is at, and the handler it ran last, are reached.
C31_RegistryClosure ==
    /\ EntryPoint \in Nodes
    /\ \A node \in Nodes : AllowedNext(node) \subseteq Nodes \cup {END}
    /\ ReachableNodes({EntryPoint}) = Nodes \cup {END}
    /\ state.current_node \in ReachableNodes({EntryPoint})
    /\ last_step # "none" => last_step \in ReachableNodes({EntryPoint})

\* a session that went through every registered node, from the entry
\* point to END
C31_Witness ==
    /\ state.process_complete
    /\ router(state) = END
    /\ state.concept_images # <<>>
    /\ CountAgent("image_analyzer") >= 1
    /\ CountAgent("concept_breaker") >= 1
    /\ CountAgent("feedback_processor") >= 1
    /\ CountAgent("technical_feasibility") >= 1
    /\ CountAgent("operations") >= 1
    /\ CountAgent("reflection") >= 1
    /\ CountAgent("final_score") >= 1

\* C32: once current_node is technical_feasibility, operations, reflection
\* or final_score it stays among them: no later step calls image_analysis,
\* concept_breaker, human_feedback or process_feedback (returning or
\* raising), awaiting_human_input is not true then or afterwards, and at
\* most one feedback was accepted in the session.
C32_OneWayGate ==
    [][/\ state.current_node \in {"technical_feasibility", "operations",
                                  "reflection", "final_score"}
            => /\ state'.current_node \in {"technical_feasibility", "operations",
                                           "reflection", "final_score"}
               /\ ~state.awaiting_human_input
               /\ ~state'.awaiting_human_input
               /\ (steps_run' = steps_run + 1 \/ failures' = failures + 1)
                     => last_step' \in {"technical_feasibility", "operations",
                                        "reflection", "final_score"}
       /\ Cardinality({i \in 1..Len(state.messages) :
              state.messages[i].content =
                 "Processing feedback. Components confirmed correct"}) <= 1]_vars

\* reflection sent the session back to technical_feasibility while
\* feedback attached after the acceptance lies unread on the record
C32_Witness ==
    /\ last_step = "reflection"
    /\ ~raised
    /\ state.current_node = "technical_feasibility"
    /\ state.user_feedback # None
    /\ CountAgent("technical_feasibility") >= 1
    /\ Logged("Processing feedback. Components confirmed correct")

\* C33: in a session without collaborator failures technical_feasibility,
\* operations and reflection return at most 3 times each, the reflection
\* collaborator answers at most 2 times (the third entry routes to
\* final_score without it), and final_score returns at most once, exactly
\* once in a completed session.
C33_BoundedWorkAfterAcceptance ==
    /\ CountAgent("technical_feasibility") <= 3
    /\ CountAgent("operations") <= 3
    /\ CountAgent("reflection") <= 3
    /\ Cardinality({i \in 1..Len(state.messages) :
           /\ state.messages[i].agent = "reflection"
           /\ state.messages[i].content #
                 "Maximum number of reflections reached (3). Moving to final evaluation."})
          <= 2
    /\ CountAgent("final_score") <= 1
    /\ state.process_complete => CountAgent("final_score") = 1

\* a completed session that used all of it: three assessments of each
\* kind, three reflections, one final score
C33_Witness ==
    /\ state.process_complete
    /\ failures = 0
    /\ CountAgent("technical_feasibility") = 3
    /\ CountAgent("operations") = 3
    /\ CountAgent("reflection") = 3
    /\ Logged("Reflection 2/3 complete. Requires iteration: True")
    /\ CountAgent("final_score") = 1

\* C34: the loop never calls process_feedback on a record without
\* user_feedback: whenever current_node is process_feedback the feedback is
\* present, and process_feedback never raised.  This holds wherever the
\* caller attached the feedback, so also when it attaches it to parked
\* records only.
C34_ProcessFeedbackAlwaysHasFeedback ==
    /\ state.current_node = "process_feedback"
          => /\ state.user_feedback # None
             /\ ~process_feedback_raises(state)
    /\ last_step = "process_feedback"
          => /\ ~raised
             /\ prev_state.user_feedback # None

\* human_feedback found the feedback and the loop is about to call
\* process_feedback
C34_Witness ==
    /\ driver = "running"
    /\ LoopContinues(state)
    /\ last_step = "human_feedback"
    /\ state.current_node = "process_feedback"
    /\ state.user_feedback # None
    /\ ~state.user_feedback.is_correct

\* C35: whenever process_complete is true, also after collaborator
\* failures, final_evaluation is present and current_node is final_score;
\* and in a session without collaborator failures final_score is entered
\* (pending or executed) only with technical_assessment,
\* operational_assessment and reflection_notes present.
C35_CompleteImpliesEvaluated ==
    /\ state.process_complete
          => /\ state.final_evaluation # None
             /\ state.current_node = "final_score"
    /\ (/\ failures = 0
        /\ state.current_node = "final_score" \/ last_step = "final_score")
          => /\ state.technical_assessment # None
             /\ state.operational_assessment # None
             /\ state.reflection_notes # None

\* final_score completed a session in which no collaborator failed, all
\* three artifacts and the final evaluation on the record
C35_Witness ==
    /\ state.process_complete
    /\ last_step = "final_score"
    /\ failures = 0
    /\ state.current_node = "final_score"
    /\ state.final_evaluation # None
    /\ state.technical_assessment # None
    /\ state.operational_assessment # None
    /\ state.reflection_notes # None

C37_FeedbackIterationCountsRequests ==
    state.feedback_iteration = CountAgent("human_feedback")

\* C38: when the loop meets a current_node that is not registered, the
\* status reported to the caller is the 400 of the "Unknown node" error.
C38_UnknownNodeReports400 ==
    [][(/\ driver = "running"
        /\ LoopContinues(state)
        /\ state.current_node \notin Nodes)
          => status' = 400]_vars

====
